---- MODULE Spec2Model ----
(***************************************************************************)
(* Model of src/zip_tool.py: compress_folder, extract_zip and main.        *)
(* Strings are sequences of one-character strings, so that the substring,  *)
(* prefix, suffix and case operations of the code are computed.            *)
(***************************************************************************)
EXTENDS Integers, Sequences, FiniteSets, TLC

VARIABLES caller, argv, pathKind, pathName, tree, archive, parentMkdir,
          destMade, destFiles, handle, pc, op, ran, todo, idx, ret,
          success, exitCode, log, fault

vars == <<caller, argv, pathKind, pathName, tree, archive, parentMkdir,
          destMade, destFiles, handle, pc, op, ran, todo, idx, ret,
          success, exitCode, log, fault>>

(* ---------------- bounds ---------------- *)
MaxEntries == 2
MaxFiles == 2

(* ---------------- strings ---------------- *)
None == <<"None">>
DotDot == <<".", ".">>
Slash == <<"/">>
ZipSuffix == <<".", "z", "i", "p">>

Contains(s, sub) ==
    \E i \in 1..(Len(s) - Len(sub) + 1) : SubSeq(s, i, i + Len(sub) - 1) = sub

StartsWith(s, p) == Len(s) >= Len(p) /\ SubSeq(s, 1, Len(p)) = p

IndexOf(s, c) ==
    IF \E i \in 1..Len(s) : s[i] = c
    THEN CHOOSE i \in 1..Len(s) : s[i] = c /\ \A j \in 1..(i - 1) : s[j] # c
    ELSE 0

LastIndexOf(s, c) ==
    IF \E i \in 1..Len(s) : s[i] = c
    THEN CHOOSE i \in 1..Len(s) : s[i] = c /\ \A j \in (i + 1)..Len(s) : s[j] # c
    ELSE 0

RECURSIVE Join(_)
Join(segs) ==
    IF segs = <<>> THEN <<>>
    ELSE IF Len(segs) = 1 THEN segs[1]
    ELSE segs[1] \o Slash \o Join(Tail(segs))

RECURSIVE Split(_)
Split(s) ==
    LET i == IndexOf(s, "/")
    IN IF i = 0 THEN <<s>>
       ELSE <<SubSeq(s, 1, i - 1)>> \o Split(SubSeq(s, i + 1, Len(s)))

LowerChar(c) ==
    CASE c = "Z" -> "z"
      [] c = "I" -> "i"
      [] c = "P" -> "p"
      [] c = "F" -> "f"
      [] OTHER -> c

Lower(s) == [i \in 1..Len(s) |-> LowerChar(s[i])]

Suffix(name) ==
    LET i == LastIndexOf(name, ".")
    IN IF 1 < i /\ i < Len(name) THEN SubSeq(name, i, Len(name)) ELSE <<>>

Stem(name) ==
    LET i == LastIndexOf(name, ".")
    IN IF 1 < i /\ i < Len(name) THEN SubSeq(name, 1, i - 1) ELSE name

WithSuffix(name, suf) == Stem(name) \o suf

(* ---------------- input domains ---------------- *)
Data == {1, 2}

SegNames == { <<"a">>, <<"a", ".", ".", "b">> }

EmptyDirs == { << <<"e">> >> }

DirNames == { <<"d">>, <<"d", ".", "v">>, <<"d", ".", "z", "i", "p">> }

FileNames == { <<"f", ".", "z", "i", "p">>, <<"f", ".", "Z", "I", "P">>,
               <<"f", ".", "Z", "i", "p">>, <<"f", ".", "t">>,
               <<"f", "z", "i", "p">>, <<".", "z", "i", "p">>,
               <<"z", "i", "p", ".">> }

EntryNames == { <<"a">>, <<>>, <<".", ".", "/", "a">>, <<"/", "a">>,
                <<"a", ".", ".", "b">>, <<"a", "/", "a">> }

ArgvSet ==
    { [kind |-> "ok", compress |-> c, extract |-> x] : c \in BOOLEAN, x \in BOOLEAN }
    \cup { [kind |-> k, compress |-> FALSE, extract |-> FALSE] :
             k \in {"missing", "unknown", "help"} }

IsPrefix(p, q) == Len(p) < Len(q) /\ SubSeq(q, 1, Len(p)) = p

RelPaths == { <<s>> : s \in SegNames } \cup { <<s, t>> : s \in SegNames, t \in SegNames }

FileSets ==
    { F \in SUBSET RelPaths :
        Cardinality(F) <= MaxFiles /\ \A p \in F, q \in F : ~IsPrefix(p, q) }

DirsOf(F) == UNION { { SubSeq(p, 1, k) : k \in 1..(Len(p) - 1) } : p \in F }

TreeOf(F, d, E) ==
    { [path |-> p, kind |-> "file", data |-> d[p]] : p \in F }
    \cup { [path |-> q, kind |-> "dir", data |-> 0] : q \in DirsOf(F) \cup E }

Trees ==
    UNION { { TreeOf(F, d, E) : d \in [F -> Data], E \in SUBSET EmptyDirs } : F \in FileSets }

InEntries == [name : EntryNames, data : {1}, corrupt : BOOLEAN]

EntrySeqs == UNION { [1..n -> InEntries] : n \in 0..MaxEntries }

NoArchive == [exists |-> FALSE, valid |-> FALSE, entries |-> <<>>]

InputArchives ==
    { [exists |-> TRUE, valid |-> TRUE, entries |-> es] : es \in EntrySeqs }
    \cup { [exists |-> TRUE, valid |-> FALSE, entries |-> <<>>] }

(* ---------------- helpers of the operations ---------------- *)
\* the is_dir() check left out
CompressPrecondExistsOnly(kind) == kind # "absent"

\* folder_path.exists() and folder_path.is_dir()
CompressPrecond(kind) == kind # "absent" /\ kind = "dir"

\* the suffix compared without lower()
SuffixOkCaseSensitive(name) == Suffix(name) = ZipSuffix

\* zip_path.suffix.lower() == '.zip'
SuffixOk(name) == Lower(Suffix(name)) = ZipSuffix

\* file_path.is_file()
is_file(n) == n.kind = "file"

\* file_path as rglob yields it: the folder path followed by the relative parts
file_path(n) == <<pathName>> \o n.path

relative_to(p, base) == SubSeq(p, Len(base) + 1, Len(p))

\* the file stored under its full path, relative_to left out
arcnameFullPath(n) == Join(file_path(n))

\* arcname under which zipf.write stores the file
arcname(n) == Join(relative_to(file_path(n), <<pathName>>))

\* the startswith check left out
IsDangerousNoAbsolute(name) == Contains(name, DotDot)

\* '..' in filename or filename.startswith('/')
IsDangerous(name) == Contains(name, DotDot) \/ StartsWith(name, Slash)

\* the name testzip opens is looked up by name: the last member of that name
LastWithName(es, nm) ==
    CHOOSE j \in 1..Len(es) : es[j].name = nm /\ \A k \in (j + 1)..Len(es) : es[k].name # nm

testzip(es) ==
    LET bad == { i \in 1..Len(es) : es[LastWithName(es, es[i].name)].corrupt }
    IN IF bad = {} THEN None
       ELSE es[CHOOSE i \in bad : \A j \in bad : i <= j].name

\* truth value of `if bad_file:`
Truthy(x) == x # None /\ x # <<>>

\* the path below the destination that zipf.extract writes for a member name
Sanitize(name) ==
    SelectSeq(Split(name), LAMBDA x : x \notin { <<>>, <<".">>, DotDot })

Conflict(files, p) ==
    \E f \in files : IsPrefix(f.path, p) \/ IsPrefix(p, f.path)

Put(files, p, d) == { f \in files : f.path # p } \cup { [path |-> p, data |-> d] }

\* the handle left as it is, no scoped release
WithExitLeak(h) == h

\* state of the archive handle on leaving its `with` block
WithExit(h) == "closed"

\* the entry's exception reaching the outer handler of extract_zip
EntryExceptAbort(h, r, i) == [pc |-> "returned", handle |-> "closed", ret |-> FALSE, idx |-> i]

\* `except Exception ... continue` inside the entry loop
EntryExcept(h, r, i) == [pc |-> "x_loop", handle |-> h, ret |-> r, idx |-> i + 1]

\* the two branches tested in the other order
DispatchExtractFirst(a) ==
    IF a.extract THEN "extract" ELSE IF a.compress THEN "compress" ELSE "none"

\* if args.compress ... elif args.extract ...
Dispatch(a) == IF a.compress THEN "compress" ELSE IF a.extract THEN "extract" ELSE "none"

ZipArgKind == IF caller = "main" THEN pathKind
              ELSE IF archive.exists THEN "file" ELSE "absent"

ZipArgName == IF caller = "main" THEN pathName ELSE WithSuffix(pathName, ZipSuffix)

(* ---------------- initial state ---------------- *)
Init ==
    /\ caller \in {"main", "api"}
    /\ argv \in ArgvSet
    /\ caller = "api" => argv = [kind |-> "ok", compress |-> FALSE, extract |-> FALSE]
    /\ pathKind \in {"absent", "file", "dir"}
    /\ pathName \in (IF pathKind = "dir" THEN DirNames ELSE FileNames)
    /\ tree \in (IF pathKind = "dir" THEN Trees ELSE {{}})
    /\ archive \in (IF pathKind = "file" THEN InputArchives ELSE {NoArchive})
    /\ parentMkdir = FALSE
    /\ destMade = FALSE
    /\ destFiles = {}
    /\ handle = "none"
    /\ pc = "start"
    /\ op = "none"
    /\ ran = <<>>
    /\ todo = {}
    /\ idx = 0
    /\ ret = FALSE
    /\ success = FALSE
    /\ exitCode = <<>>
    /\ log = <<>>
    /\ fault = {}

Return(r) == pc' = "returned" /\ ret' = r

(* The members of `fault` record the failures of the environment taken on
   the way: a file that cannot be opened, read, created or written. *)

(* ---------------- compress_folder ---------------- *)
CompressCheck ==
    /\ pc = "c_check"
    /\ IF ~CompressPrecond(pathKind)
       THEN /\ Return(FALSE)
            /\ UNCHANGED parentMkdir
       ELSE /\ parentMkdir' = TRUE
            /\ pc' = "c_open"
            /\ UNCHANGED ret
    /\ UNCHANGED <<caller, argv, pathKind, pathName, tree, archive, destMade,
                   destFiles, handle, op, ran, todo, idx, success, exitCode, log, fault>>

CompressOpen ==
    /\ pc = "c_open"
    /\ \/ /\ WithSuffix(pathName, ZipSuffix) # pathName
          /\ archive' = [exists |-> TRUE, valid |-> TRUE, entries |-> <<>>]
          /\ handle' = "open"
          /\ todo' = tree
          /\ pc' = "c_loop"
          /\ UNCHANGED <<ret, fault>>
       \/ /\ WithSuffix(pathName, ZipSuffix) = pathName
          /\ Return(FALSE)
          /\ UNCHANGED <<archive, handle, todo, fault>>
       \/ /\ Return(FALSE)
          /\ fault' = fault \cup {"open"}
          /\ UNCHANGED <<archive, handle, todo>>
    /\ UNCHANGED <<caller, argv, pathKind, pathName, tree, parentMkdir, destMade,
                   destFiles, op, ran, idx, success, exitCode, log>>

CompressEntry ==
    /\ pc = "c_loop"
    /\ \E n \in todo :
         IF is_file(n)
         THEN \/ /\ archive' = [archive EXCEPT !.entries =
                        Append(@, [name |-> arcname(n), data |-> n.data, corrupt |-> FALSE])]
                 /\ log' = Append(log, [tag |-> "added", name |-> arcname(n)])
                 /\ todo' = todo \ {n}
                 /\ UNCHANGED <<pc, ret, handle, fault>>
              \/ /\ handle' = WithExit(handle)
                 /\ Return(FALSE)
                 /\ fault' = fault \cup {"write"}
                 /\ UNCHANGED <<archive, log, todo>>
         ELSE /\ todo' = todo \ {n}
              /\ UNCHANGED <<pc, ret, handle, fault, archive, log>>
    /\ UNCHANGED <<caller, argv, pathKind, pathName, tree, parentMkdir, destMade,
                   destFiles, op, ran, idx, success, exitCode>>

CompressDone ==
    /\ pc = "c_loop"
    /\ todo = {}
    /\ handle' = WithExit(handle)
    /\ Return(TRUE)
    /\ UNCHANGED <<caller, argv, pathKind, pathName, tree, archive, parentMkdir, destMade,
                   destFiles, op, ran, todo, idx, success, exitCode, log, fault>>

(* ---------------- extract_zip ---------------- *)
ExtractCheck ==
    /\ pc = "x_check"
    /\ IF ZipArgKind = "absent" \/ ZipArgKind # "file" \/ ~SuffixOk(ZipArgName)
       THEN /\ Return(FALSE)
            /\ UNCHANGED <<destMade, fault>>
       ELSE \/ /\ destMade' = TRUE
               /\ pc' = "x_open"
               /\ UNCHANGED <<ret, fault>>
            \/ /\ Return(FALSE)
               /\ fault' = fault \cup {"mkdir"}
               /\ UNCHANGED destMade
    /\ UNCHANGED <<caller, argv, pathKind, pathName, tree, archive, parentMkdir,
                   destFiles, handle, op, ran, todo, idx, success, exitCode, log>>

ExtractOpen ==
    /\ pc = "x_open"
    /\ IF ~archive.valid
       THEN /\ Return(FALSE)
            /\ UNCHANGED <<handle, fault>>
       ELSE \/ /\ handle' = "open"
               /\ pc' = "x_test"
               /\ UNCHANGED <<ret, fault>>
            \/ /\ Return(FALSE)
               /\ fault' = fault \cup {"open"}
               /\ UNCHANGED handle
    /\ UNCHANGED <<caller, argv, pathKind, pathName, tree, archive, parentMkdir, destMade,
                   destFiles, op, ran, todo, idx, success, exitCode, log>>

ExtractTest ==
    /\ pc = "x_test"
    /\ \/ IF Truthy(testzip(archive.entries))
          THEN /\ handle' = WithExit(handle)
               /\ Return(FALSE)
               /\ UNCHANGED <<idx, fault>>
          ELSE /\ idx' = 1
               /\ pc' = "x_loop"
               /\ UNCHANGED <<handle, ret, fault>>
       \/ \* testzip raises something other than BadZipFile: the outer handler
          /\ handle' = WithExit(handle)
          /\ Return(FALSE)
          /\ fault' = fault \cup {"testzip"}
          /\ UNCHANGED idx
    /\ UNCHANGED <<caller, argv, pathKind, pathName, tree, archive, parentMkdir, destMade,
                   destFiles, op, ran, todo, success, exitCode, log>>

ExtractEntry ==
    /\ pc = "x_loop"
    /\ idx <= Len(archive.entries)
    /\ LET e == archive.entries[idx]
           target == Sanitize(e.name)
           exc == EntryExcept(handle, ret, idx)
           Raise == /\ log' = Append(log, [tag |-> "fail", name |-> e.name])
                    /\ pc' = exc.pc
                    /\ handle' = exc.handle
                    /\ ret' = exc.ret
                    /\ idx' = exc.idx
       IN IF IsDangerous(e.name)
          THEN /\ log' = Append(log, [tag |-> "skip", name |-> e.name])
               /\ idx' = idx + 1
               /\ UNCHANGED <<pc, handle, ret, destFiles, fault>>
          ELSE IF target = <<>> \/ Conflict(destFiles, target)
          THEN /\ Raise
               /\ UNCHANGED <<destFiles, fault>>
          ELSE IF e.corrupt
          THEN /\ Raise
               /\ destFiles' = Put(destFiles, target, 0)
               /\ UNCHANGED fault
          ELSE \/ /\ destFiles' = Put(destFiles, target, e.data)
                  /\ log' = Append(log, [tag |-> "ok", name |-> e.name])
                  /\ idx' = idx + 1
                  /\ UNCHANGED <<pc, handle, ret, fault>>
               \/ /\ Raise
                  /\ fault' = fault \cup {"extract"}
                  /\ UNCHANGED destFiles
    /\ UNCHANGED <<caller, argv, pathKind, pathName, tree, archive, parentMkdir, destMade,
                   op, ran, todo, success, exitCode>>

ExtractDone ==
    /\ pc = "x_loop"
    /\ idx > Len(archive.entries)
    /\ handle' = WithExit(handle)
    /\ Return(TRUE)
    /\ UNCHANGED <<caller, argv, pathKind, pathName, tree, archive, parentMkdir, destMade,
                   destFiles, op, ran, todo, idx, success, exitCode, log, fault>>

(* ---------------- main ---------------- *)
MainParse ==
    /\ pc = "start"
    /\ caller = "main"
    /\ \/ /\ argv.kind = "ok"
          /\ success' = FALSE
          /\ pc' = "dispatch"
          /\ UNCHANGED exitCode
       \/ /\ argv.kind \in {"missing", "unknown"}
          /\ exitCode' = <<2>>
          /\ pc' = "exited"
          /\ UNCHANGED success
       \/ /\ argv.kind = "help"
          /\ exitCode' = <<0>>
          /\ pc' = "exited"
          /\ UNCHANGED success
    /\ UNCHANGED <<caller, argv, pathKind, pathName, tree, archive, parentMkdir, destMade,
                   destFiles, handle, op, ran, todo, idx, ret, log, fault>>

MainDispatch ==
    /\ pc = "dispatch"
    /\ LET d == Dispatch(argv)
       IN /\ op' = d
          /\ ran' = IF d = "none" THEN ran ELSE Append(ran, d)
          /\ pc' = CASE d = "compress" -> "c_check"
                     [] d = "extract" -> "x_check"
                     [] OTHER -> "main_exit"
    /\ UNCHANGED <<caller, argv, pathKind, pathName, tree, archive, parentMkdir, destMade,
                   destFiles, handle, todo, idx, ret, success, exitCode, log, fault>>

MainReturn ==
    /\ pc = "returned"
    /\ caller = "main"
    /\ success' = ret
    /\ pc' = "main_exit"
    /\ UNCHANGED <<caller, argv, pathKind, pathName, tree, archive, parentMkdir, destMade,
                   destFiles, handle, op, ran, todo, idx, ret, exitCode, log, fault>>

\* an Exception raised by main's own statements (os.getcwd() of a removed
\* working directory), caught by main's handler
MainFault ==
    /\ pc = "start"
    /\ caller = "main"
    /\ success' = FALSE
    /\ fault' = fault \cup {"main"}
    /\ pc' = "main_exit"
    /\ UNCHANGED <<caller, argv, pathKind, pathName, tree, archive, parentMkdir, destMade,
                   destFiles, handle, op, ran, todo, idx, ret, exitCode, log>>

MainExit ==
    /\ pc = "main_exit"
    /\ exitCode' = <<IF success THEN 0 ELSE 1>>
    /\ pc' = "exited"
    /\ UNCHANGED <<caller, argv, pathKind, pathName, tree, archive, parentMkdir, destMade,
                   destFiles, handle, op, ran, todo, idx, ret, success, log, fault>>

(* ------- the two operations called in sequence: compress, then extract ------- *)
ApiCompress ==
    /\ pc = "start"
    /\ caller = "api"
    /\ op' = "compress"
    /\ ran' = Append(ran, "compress")
    /\ pc' = "c_check"
    /\ UNCHANGED <<caller, argv, pathKind, pathName, tree, archive, parentMkdir, destMade,
                   destFiles, handle, todo, idx, ret, success, exitCode, log, fault>>

ApiExtract ==
    /\ pc = "returned"
    /\ caller = "api"
    /\ op = "compress"
    /\ ret
    /\ op' = "extract"
    /\ ran' = Append(ran, "extract")
    /\ pc' = "x_check"
    /\ UNCHANGED <<caller, argv, pathKind, pathName, tree, archive, parentMkdir, destMade,
                   destFiles, handle, todo, idx, ret, success, exitCode, log, fault>>

ApiDone ==
    /\ pc = "returned"
    /\ caller = "api"
    /\ op = "extract" \/ ~ret
    /\ pc' = "exited"
    /\ UNCHANGED <<caller, argv, pathKind, pathName, tree, archive, parentMkdir, destMade,
                   destFiles, handle, op, ran, todo, idx, ret, success, exitCode, log, fault>>

Next ==
    \/ CompressCheck \/ CompressOpen \/ CompressEntry \/ CompressDone
    \/ ExtractCheck \/ ExtractOpen \/ ExtractTest \/ ExtractEntry \/ ExtractDone
    \/ MainParse \/ MainDispatch \/ MainReturn \/ MainFault \/ MainExit
    \/ ApiCompress \/ ApiExtract \/ ApiDone

Spec == Init /\ [][Next]_vars

(* ---------------- vocabulary of the properties ---------------- *)
HasParentSegment(name) == \E i \in 1..Len(Split(name)) : Split(name)[i] = DotDot

IsAbsolute(name) == Len(name) > 0 /\ name[1] = "/"

XLog == SelectSeq(log, LAMBDA l : l.tag # "added")

SrcFiles == { [path |-> n.path, data |-> n.data] : n \in { m \in tree : m.kind = "file" } }

EntryNameSet == { archive.entries[i].name : i \in 1..Len(archive.entries) }

HasZipExtension(name) ==
    /\ Len(name) > 4
    /\ name[Len(name) - 3] = "."
    /\ name[Len(name) - 2] \in {"z", "Z"}
    /\ name[Len(name) - 1] \in {"i", "I"}
    /\ name[Len(name)] \in {"p", "P"}

Finished == pc \in {"returned", "main_exit", "exited"}

(* C1: compressing a directory of regular files and extracting the produced
   archive into a fresh directory gives exactly the files of the directory,
   with the same contents, whatever the file names are (no I/O fault). *)
C1_RoundTrip ==
    (caller = "api" /\ pc = "exited" /\ op = "extract" /\ ret /\ fault = {})
        => destFiles = SrcFiles

(* C2: an entry whose name has a `..` segment or is absolute is skipped and
   never handed to the write step, nothing is written outside the
   destination, the other entries are still processed and the extraction
   that reached its entry loop returns success. *)
C2_PathSafety ==
    /\ \A i \in 1..Len(XLog) :
          (HasParentSegment(XLog[i].name) \/ IsAbsolute(XLog[i].name))
              => XLog[i].tag = "skip"
    /\ \A f \in destFiles :
          f.path # <<>> /\ \A k \in 1..Len(f.path) : f.path[k] \notin {DotDot, <<>>}
    /\ (op = "extract" /\ pc = "x_loop")
          => /\ Len(XLog) = idx - 1
             /\ \A i \in 1..Len(XLog) : XLog[i].name = archive.entries[i].name
    /\ (op = "extract" /\ Finished /\ XLog # <<>>)
          => ret /\ Len(XLog) = Len(archive.entries)

C2_Witness ==
    /\ op = "extract" /\ pc = "returned" /\ ret
    /\ Len(XLog) = 2
    /\ XLog[1].tag = "skip" /\ IsAbsolute(XLog[1].name)
    /\ XLog[2].tag = "ok"
    /\ destFiles # {}

(* C3: when whole-archive validation reports a corrupt member, nothing is
   ever written to the destination and the extraction returns failure. *)
C3_CorruptAborts ==
    (op = "extract" /\ archive.valid /\ testzip(archive.entries) # None)
        => /\ destFiles = {}
           /\ (pc = "returned" => ~ret)

(* C4: every run of main ends with exit code 0 or 1, and 0 exactly when the
   selected operation returned success. *)
C4_ExitCode ==
    (caller = "main" /\ pc = "exited")
        => /\ exitCode \in {<<0>>, <<1>>}
           /\ (exitCode = <<0>> <=> (ran # <<>> /\ ret))

(* C5: compress_folder on a path that is absent or not a directory returns
   failure in its precondition step: no parent directory is created, no
   archive is opened or written, the filesystem is unchanged. *)
C5_CompressPrecondition ==
    [][(pc = "c_check" /\ pathKind # "dir")
         => /\ pc' = "returned" /\ ret' = FALSE
            /\ handle' = "none"
            /\ UNCHANGED <<archive, parentMkdir, destMade, destFiles, tree>>]_vars

C5_Witness ==
    /\ op = "compress" /\ pathKind = "file" /\ pc = "returned" /\ ~ret
    /\ ~parentMkdir /\ handle = "none"

(* C6: extract_zip on a path that is absent, not a regular file, or whose
   extension is not .zip (compared without regard to case) returns failure
   without opening the archive or creating the destination; a regular file
   whose extension is .zip in any letter case passes the checks. *)
C6_ExtractPrecondition ==
    [][(pc = "x_check")
         => IF ZipArgKind = "file" /\ HasZipExtension(ZipArgName)
            THEN pc' = "x_open" \/ "mkdir" \in fault'
            ELSE /\ pc' = "returned" /\ ret' = FALSE
                 /\ handle' = "none"
                 /\ UNCHANGED <<archive, destMade, destFiles, fault>>]_vars

C6_Witness ==
    /\ op = "extract" /\ pc = "x_open"
    /\ pathName = <<"f", ".", "Z", "i", "p">>

(* C7: a failing entry is logged and the following entries are still
   processed; any number of failed or skipped entries, all of them
   included, leaves the result of extract_zip a success. *)
C7_EntryIsolation ==
    /\ (op = "extract" /\ pc = "x_loop")
          => /\ handle = "open"
             /\ Len(XLog) = idx - 1
    /\ (op = "extract" /\ Finished /\ \E i \in 1..Len(XLog) : XLog[i].tag = "fail")
          => /\ ret
             /\ Len(XLog) = Len(archive.entries)
             /\ \A i \in 1..Len(XLog) : XLog[i].name = archive.entries[i].name

C7_Witness ==
    /\ op = "extract" /\ pc = "returned" /\ ret
    /\ Len(XLog) = 2
    /\ XLog[1].tag = "fail" /\ XLog[2].tag = "fail"
    /\ "extract" \in fault

(* C8: main runs at most one operation: the archiver when the compress flag
   is set (even with the extract flag), otherwise the extractor when the
   extract flag is set; with neither flag nothing runs, nothing is touched
   and the result is failure. *)
C8_Dispatch ==
    caller = "main"
        => /\ Len(ran) <= 1
           /\ ran = <<"compress">> => argv.compress
           /\ ran = <<"extract">> => (~argv.compress /\ argv.extract)
           /\ (pc \notin {"start", "dispatch"} /\ argv.kind = "ok" /\ "main" \notin fault)
                 => ran = (IF argv.compress THEN <<"compress">>
                           ELSE IF argv.extract THEN <<"extract">> ELSE <<>>)
           /\ (~argv.compress /\ ~argv.extract)
                 => /\ ran = <<>>
                    /\ pc \in {"start", "dispatch", "main_exit", "exited"}
                    /\ handle = "none" /\ ~parentMkdir /\ ~destMade /\ destFiles = {}
                    /\ success = FALSE
                    /\ (pc = "exited" /\ argv.kind = "ok") => exitCode = <<1>>

C8_Witness ==
    /\ caller = "main" /\ argv.compress /\ argv.extract
    /\ pc = "exited" /\ ran = <<"compress">> /\ exitCode = <<0>>

(* C9: after a successful compress_folder the archive has exactly one entry
   per regular file under the directory, named by the file's path relative
   to the directory; directories give no entry, no name is absolute or has
   a `..` segment, and an empty directory gives a valid archive with no
   entry. *)
C9_ArchiveContents ==
    (op = "compress" /\ pc = "returned" /\ ret)
        => /\ archive.exists /\ archive.valid
           /\ EntryNameSet = { Join(f.path) : f \in SrcFiles }
           /\ Len(archive.entries) = Cardinality(SrcFiles)
           /\ \A i \in 1..Len(archive.entries) :
                 LET e == archive.entries[i]
                 IN /\ ~IsAbsolute(e.name) /\ ~HasParentSegment(e.name)
                    /\ [path |-> Split(e.name), data |-> e.data] \in SrcFiles
           /\ SrcFiles = {} => archive.entries = <<>>

C9_Witness ==
    /\ op = "compress" /\ pc = "returned" /\ ret
    /\ Len(archive.entries) = 2
    /\ \E n \in tree : n.kind = "dir"
    /\ \E i \in 1..2 : Len(Split(archive.entries[i].name)) = 2

(* C10: the archive handle an operation opened is closed on every path by
   which the operation returns; it is open only inside the `with` block. *)
C10_HandleReleased ==
    /\ handle = "open" => pc \in {"c_loop", "x_test", "x_loop"}
    /\ (Finished /\ handle # "none") => handle = "closed"

C10_Witness ==
    /\ op = "extract" /\ pc = "returned" /\ ~ret /\ handle = "closed"
    /\ testzip(archive.entries) # None
====
